---- MODULE Spec2Model ----
(***************************************************************************)
(* Incremental synchronisation of the Sushiswap module                     *)
(* (rotkehlchen/chain/ethereum/modules/sushiswap/sushiswap.py): the used   *)
(* query ranges, the paginated subgraph queries, the write of the fetched  *)
(* records to the DB and the trades lock.                                  *)
(*                                                                         *)
(* The trades tables (amm_swaps + ranges 'sushiswap_trades_<address>') and *)
(* the events tables (sushiswap events + ranges                            *)
(* 'sushiswap_events_<address>') share no row and no code path writes      *)
(* both in one call except deactivate, which deletes both.  A behaviour    *)
(* therefore tracks the tables of one data kind, chosen in Init; both      *)
(* kinds are explored.                                                     *)
(***************************************************************************)
EXTENDS Integers, Sequences, FiniteSets, TLC

VARIABLES
    kind,    \* data kind whose tables are tracked: "trades" or "events"
    ranges,  \* used_query_ranges rows of that kind: address -> <<start, end>> or NoRange
    store,   \* rows of the kind's table (amm_swaps / sushiswap events)
    last,    \* observation of the last completed operation
    pg,      \* state of one paginated subgraph query (offset, requests, accumulator)
    pc,      \* position of every caller of get_trades_history or _get_events_balances
    frame,   \* arguments and locals of every caller
    trades_lock,  \* holder of self.trades_lock, 0 when free
    ncalls,  \* calls entered so far by the callers
    staking  \* AdEx staking: the events of an address, its balances, the details computed

vars == <<kind, ranges, store, last, pg, pc, frame, trades_lock, ncalls, staking>>

-----------------------------------------------------------------------------
(* Bounds *)

\* timestamps are 0..MaxTs
MaxTs == 2
\* page size of every subgraph query (imported from rotkehlchen.chain.ethereum.graph)
GRAPH_QUERY_LIMIT == 2
\* concurrent callers of get_trades_history
NumCallers == 2
\* calls of get_trades_history the concurrent callers make in one behaviour
MaxCalls == 2

\* the tracked ethereum addresses
Addresses == {"a1", "a2"}
Timestamps == 0..MaxTs
Callers == 1..NumCallers
\* a batch is a list of distinct addresses
Batches ==
    {b \in UNION {[1..n -> Addresses] : n \in 1..Cardinality(Addresses)} :
        \A i, j \in DOMAIN b : b[i] = b[j] => i = j}

Kinds == {"trades", "events"}

\* no row in used_query_ranges: get_used_query_range returns None
NoRange == <<>>

SeqToSet(s) == {s[i] : i \in DOMAIN s}

Min(S) == CHOOSE x \in S : \A y \in S : x <= y

-----------------------------------------------------------------------------
(* The remote subgraph *)

\* EventType of ammswap.typing, in enumeration order
EventTypes == <<"mint", "burn">>

RecordTypes(k) == IF k = "trades" THEN <<"swap">> ELSE EventTypes

\* How the fields of a swap of the subgraph read: "ok", or an address
\* (token0, token1, sender, to) that deserialize_ethereum_address rejects, or
\* an amount that FVal rejects.
RawStates == {"ok", "bad_address", "bad_amount"}

\* a swap of the subgraph, with its four amounts
Swap(address, timestamp, log_index, raw, pair, amounts) ==
    [address |-> address, timestamp |-> timestamp, log_index |-> log_index,
     raw |-> raw, pair |-> pair, type |-> "swap",
     amount0_in |-> amounts.amount0_in, amount1_in |-> amounts.amount1_in,
     amount0_out |-> amounts.amount0_out, amount1_out |-> amounts.amount1_out]

\* amounts of a swap that takes token1 in and gives token0 out
BuyAmounts == [amount0_in |-> 0, amount1_in |-> 1, amount0_out |-> 1, amount1_out |-> 0]

\* What the subgraph holds: for every address one swap at every timestamp, in
\* a transaction of its own and with well-formed fields, and liquidity events
\* one mint at timestamp 0 and then a burn at every odd timestamp with a
\* mint at the same timestamp and a lower log index.  In a swap log indexes
\* fall as timestamps rise.
RemoteSwaps ==
    {Swap(a, t, MaxTs - t, "ok", "p1", BuyAmounts) : a \in Addresses, t \in Timestamps}

RemoteEvents ==
    {[address |-> a, timestamp |-> IF t > 0 /\ t % 2 = 0 THEN t - 1 ELSE t,
      log_index |-> MaxTs - t,
      type |-> IF t % 2 = 0 THEN "mint" ELSE "burn"] :
        a \in Addresses, t \in Timestamps}

RemoteData(k) == IF k = "trades" THEN RemoteSwaps ELSE RemoteEvents

\* (timestamp, log_index) order, the key of the sort in _get_events_balances
KeyLess(r1, r2) ==
    \/ r1.timestamp < r2.timestamp
    \/ r1.timestamp = r2.timestamp /\ r1.log_index < r2.log_index

RECURSIVE SortedSeq(_)
SortedSeq(S) ==
    IF S = {} THEN <<>>
    ELSE LET m == CHOOSE x \in S : \A y \in S \ {x} : KeyLess(x, y)
         IN <<m>> \o SortedSeq(S \ {m})

\* An entry of result['swaps']: entry['transaction']['swaps'] lists the swaps
\* of the entry's transaction.
Entry(swaps) == [transaction |-> [swaps |-> swaps]]

\* All rows the subgraph has for one query (SWAPS_QUERY or an events query)
\* of an address and a time window, in the order it pages them.
RemoteRows ==
    [k \in Kinds, type \in {"swap"} \cup SeqToSet(EventTypes), address \in Addresses,
     start_ts \in Timestamps, end_ts \in Timestamps |->
        LET rows == SortedSeq({r \in RemoteData(k) :
                        /\ r.address = address
                        /\ r.type = type
                        /\ start_ts <= r.timestamp
                        /\ r.timestamp <= end_ts})
        IN  IF type = "swap"
            THEN [i \in DOMAIN rows |-> Entry(<<rows[i]>>)]
            ELSE rows]

QueryRows(k, type, address, start_ts, end_ts) ==
    RemoteRows[k, type, address, start_ts, end_ts]

-----------------------------------------------------------------------------
(* The paginated query loop *)

\* graph.query with param_values limit/offset: the rows offset+1 .. offset+limit
Page(rows, offset, limit) ==
    SubSeq(rows, offset + 1, IF offset + limit < Len(rows) THEN offset + limit ELSE Len(rows))

\* The paginated queries of the module
Queries == {"swaps", "events", "liquidityPositions", "tokenDayDatas"}

\* variant of Raises: every loop re-raises the RemoteError
Raises_all(query) == TRUE

\* On RemoteError _get_balances_graph and _get_unknown_asset_price_graph
\* `raise`; _get_trades_graph_for_address does `break`.
Raises(query) == query \in {"liquidityPositions", "tokenDayDatas"}

\* State of one `while True` loop before its first request: param_values has
\* offset 0 and the accumulator is empty.  rows is what the subgraph holds for
\* the query, failAt the ordinal of the request on which graph.query raises
\* RemoteError (0: never).
NewQuery(query, rows, failAt) ==
    [query |-> query, rows |-> rows, failAt |-> failAt,
     offset |-> 0, requests |-> <<>>, acc |-> <<>>, status |-> "running"]

\* no query in progress
NoQuery == [NewQuery("swaps", <<>>, 0) EXCEPT !.status = "idle"]

\* AMMSwap(...) of a swap of the subgraph whose fields all deserialize
AMMSwap(swap) ==
    [address |-> swap.address, timestamp |-> swap.timestamp,
     log_index |-> swap.log_index, pair |-> swap.pair, type |-> "swap",
     amount0_in |-> swap.amount0_in, amount1_in |-> swap.amount1_in,
     amount0_out |-> swap.amount0_out, amount1_out |-> swap.amount1_out]

\* variant of TxSwaps: only a bad address is skipped, the amounts are not checked
TxSwaps_amounts_unchecked(entry) ==
    LET legs == SelectSeq(entry.transaction.swaps, LAMBDA swap : swap.raw # "bad_address")
    IN  [i \in DOMAIN legs |-> AMMSwap(legs[i])]

\* `for swap in entry['transaction']['swaps']`: a swap with an address or an
\* amount that does not deserialize is logged and skipped (`continue`), every
\* other one is appended to swaps.
TxSwaps(entry) ==
    LET legs == SelectSeq(entry.transaction.swaps, LAMBDA swap : swap.raw = "ok")
    IN  [i \in DOMAIN legs |-> AMMSwap(legs[i])]

\* variant of TradeType: the SELL pattern is tested on the amounts of a BUY
TradeType_sell_as_buy(swap) ==
    IF swap.amount1_in > 0 /\ swap.amount0_out > 0 THEN "BUY"
    ELSE IF swap.amount1_in > 0 /\ swap.amount1_out > 0 THEN "SELL"
    ELSE "invalid"

\* The direction of a swap: BUY for token1 in and token0 out, SELL for token0
\* in and token1 out, neither makes the swap invalid.
TradeType(swap) ==
    IF swap.amount1_in > 0 /\ swap.amount0_out > 0 THEN "BUY"
    ELSE IF swap.amount0_in > 0 /\ swap.amount1_out > 0 THEN "SELL"
    ELSE "invalid"

\* a trade of one swap
NewTrade(swap) ==
    [trade_type |-> TradeType(swap), pair |-> swap.pair, swaps |-> <<swap>>,
     amount0_in |-> swap.amount0_in, amount1_in |-> swap.amount1_in,
     amount0_out |-> swap.amount0_out, amount1_out |-> swap.amount1_out]

\* a trade with one more swap of its pool and direction: the amounts add up
MergeSwap(trade, swap) ==
    [trade EXCEPT !.swaps = Append(@, swap),
                  !.amount0_in = @ + swap.amount0_in,
                  !.amount1_in = @ + swap.amount1_in,
                  !.amount0_out = @ + swap.amount0_out,
                  !.amount1_out = @ + swap.amount1_out]

RECURSIVE GroupSwaps(_, _)
\* The swaps one after the other: an invalid one is dropped, one of the pool
\* and direction of the last trade is merged into it, any other one starts a
\* new trade.
GroupSwaps(swaps, trades) ==
    IF swaps = <<>> THEN trades
    ELSE LET swap == Head(swaps)
             n == Len(trades)
         IN  IF TradeType(swap) = "invalid"
             THEN GroupSwaps(Tail(swaps), trades)
             ELSE IF n > 0 /\ trades[n].pair = swap.pair
                           /\ trades[n].trade_type = TradeType(swap)
             THEN GroupSwaps(Tail(swaps), [trades EXCEPT ![n] = MergeSwap(@, swap)])
             ELSE GroupSwaps(Tail(swaps), Append(trades, NewTrade(swap)))

\* _tx_swaps_to_trades of AMMSwapPlatform on a non-empty list: the swaps in
\* log index order, grouped into trades.
_tx_swaps_to_trades(swaps) == GroupSwaps(SortedSeq(SeqToSet(swaps)), <<>>)

\* one iteration of `for entry in result['swaps']`: nothing for an entry whose
\* swaps list stays empty, else the trades of its swaps
EntryTrades(entry) ==
    LET swaps == TxSwaps(entry)
    IN  IF Len(swaps) = 0 THEN <<>> ELSE _tx_swaps_to_trades(swaps)

\* the swaps of a list of entries that deserialize, in order
RECURSIVE AllTxSwaps(_)
AllTxSwaps(entries) ==
    IF entries = <<>> THEN <<>> ELSE TxSwaps(Head(entries)) \o AllTxSwaps(Tail(entries))

RECURSIVE PageTrades(_), PageTrades_carry(_)

\* variant of PageTrades: `swaps = []` is done once per page, so that every
\* entry is grouped together with the swaps of the entries before it
PageTrades_carry(entries) ==
    IF entries = <<>> THEN <<>>
    ELSE PageTrades_carry(SubSeq(entries, 1, Len(entries) - 1))
         \o (IF AllTxSwaps(entries) = <<>> THEN <<>> ELSE _tx_swaps_to_trades(AllTxSwaps(entries)))

\* `for entry in result['swaps']` over one page
PageTrades(entries) ==
    IF entries = <<>> THEN <<>>
    ELSE EntryTrades(Head(entries)) \o PageTrades(Tail(entries))

\* what one page adds to the accumulator of a query: the trades of a swaps
\* page, the pools of a liquidityPositions page, the prices of a tokenDayDatas
\* page, the events of an events page
PageItems(query, page) == IF query = "swaps" THEN PageTrades(page) ELSE page

\* variant of BadRecord: a record that does not deserialize is skipped over
BadRecord_skip(query, page) == FALSE

\* a liquidityPositions or tokenDayDatas page with a record whose address
\* does not deserialize: `raise RemoteError(msg) from e`
BadRecord(query, page) ==
    /\ query \in {"liquidityPositions", "tokenDayDatas"}
    /\ \E i \in DOMAIN page : ~page[i].ok

\* variant of PageStep: the loop ends on a page of at most a full page
PageStep_le(st) ==
    LET req == [limit |-> GRAPH_QUERY_LIMIT, offset |-> st.offset]
        page == Page(st.rows, st.offset, GRAPH_QUERY_LIMIT)
    IN  IF st.failAt = Len(st.requests) + 1
        THEN [st EXCEPT !.requests = Append(@, req),
                        !.status = "error",
                        !.acc = IF Raises(st.query) THEN <<>> ELSE @]
        ELSE IF BadRecord(st.query, page)
        THEN [st EXCEPT !.requests = Append(@, req),
                        !.status = "error",
                        !.acc = <<>>]
        ELSE IF Len(page) <= GRAPH_QUERY_LIMIT
        THEN [st EXCEPT !.requests = Append(@, req),
                        !.acc = @ \o PageItems(st.query, page),
                        !.status = "done"]
        ELSE [st EXCEPT !.requests = Append(@, req),
                        !.acc = @ \o PageItems(st.query, page),
                        !.offset = @ + GRAPH_QUERY_LIMIT]

\* variant of PageStep: the pagination step leaves the offset as it is
PageStep_same_offset(st) ==
    LET req == [limit |-> GRAPH_QUERY_LIMIT, offset |-> st.offset]
        page == Page(st.rows, st.offset, GRAPH_QUERY_LIMIT)
    IN  IF st.failAt = Len(st.requests) + 1
        THEN [st EXCEPT !.requests = Append(@, req),
                        !.status = "error",
                        !.acc = IF Raises(st.query) THEN <<>> ELSE @]
        ELSE IF BadRecord(st.query, page)
        THEN [st EXCEPT !.requests = Append(@, req),
                        !.status = "error",
                        !.acc = <<>>]
        ELSE IF Len(page) < GRAPH_QUERY_LIMIT
        THEN [st EXCEPT !.requests = Append(@, req),
                        !.acc = @ \o PageItems(st.query, page),
                        !.status = "done"]
        ELSE [st EXCEPT !.requests = Append(@, req),
                        !.acc = @ \o PageItems(st.query, page)]

\* One iteration of the loop: the request, then on RemoteError break or raise
\* (a raise drops what was accumulated), the records of the page, then on a
\* short page break, otherwise the next offset.
PageStep(st) ==
    LET req == [limit |-> GRAPH_QUERY_LIMIT, offset |-> st.offset]
        page == Page(st.rows, st.offset, GRAPH_QUERY_LIMIT)
    IN  IF st.failAt = Len(st.requests) + 1
        THEN [st EXCEPT !.requests = Append(@, req),
                        !.status = "error",
                        !.acc = IF Raises(st.query) THEN <<>> ELSE @]
        ELSE IF BadRecord(st.query, page)
        THEN [st EXCEPT !.requests = Append(@, req),
                        !.status = "error",
                        !.acc = <<>>]
        ELSE IF Len(page) < GRAPH_QUERY_LIMIT
        THEN [st EXCEPT !.requests = Append(@, req),
                        !.acc = @ \o PageItems(st.query, page),
                        !.status = "done"]
        ELSE [st EXCEPT !.requests = Append(@, req),
                        !.acc = @ \o PageItems(st.query, page),
                        !.offset = @ + GRAPH_QUERY_LIMIT]

RECURSIVE RunPages(_)
RunPages(st) == IF st.status # "running" THEN st ELSE RunPages(PageStep(st))

\* most requests one loop can issue over the remote data of the model
MaxRequests == ((MaxTs + 1) \div GRAPH_QUERY_LIMIT) + 1

\* What a history query hands to its caller: the records built from the pages
\* read before the loop ended, and whether msg_aggregator.add_error was called.
Returns(st) ==
    [trades |-> st.acc, error |-> st.status = "error", requests |-> Len(st.requests)]

\* The loop over SWAPS_QUERY run to its end, then `return trades` (each swaps
\* entry of the model is one well-formed swap), for every argument.
SwapsLoop ==
    [address \in Addresses, start_ts \in Timestamps, end_ts \in Timestamps,
     failAt \in 0..MaxRequests |->
        Returns(RunPages(NewQuery("swaps",
            QueryRows("trades", "swap", address, start_ts, end_ts), failAt)))]

_get_trades_graph_for_address(address, start_ts, end_ts, failAt) ==
    SwapsLoop[address, start_ts, end_ts, failAt]

\* The loop of _get_events_graph of AMMSwapPlatform, for every argument
EventsLoop ==
    [address \in Addresses, start_ts \in Timestamps, end_ts \in Timestamps,
     event_type \in SeqToSet(EventTypes), failAt \in 0..MaxRequests |->
        Returns(RunPages(NewQuery("events",
            QueryRows("events", event_type, address, start_ts, end_ts), failAt)))]

\* _get_events_graph, one call per EventType
_get_events_graph(address, start_ts, end_ts, event_type, failAt) ==
    EventsLoop[address, start_ts, end_ts, event_type, failAt]

-----------------------------------------------------------------------------
(* Variants of definitions below, each with one plausible slip *)

\* variant of DeltaNeeded: the delta block also runs when to_timestamp = min_end_ts
DeltaNeeded_ge(c, to_timestamp) ==
    c.existing_addresses # <<>> /\ to_timestamp >= c.min_end_ts

\* variant of DeltaStart: the existing addresses are queried from 0 again
DeltaStart_zero(c) == 0

\* variant of LockFree: the section is entered without the lock being free
LockFree_always(lock) == TRUE

\* variant of ResetTradesData: reset_db_data is ignored
ResetTradesData_skip(reset_db_data, db) == [ranges |-> db.ranges, store |-> db.store]

-----------------------------------------------------------------------------
(* The DB handler: used query ranges and the rows of the kind's table *)

\* update_used_query_range, once for every address of the list
update_used_query_range(rs, addresses, start_ts, end_ts) ==
    [a \in Addresses |->
        IF a \in SeqToSet(addresses) THEN <<start_ts, end_ts>> ELSE rs[a]]

\* add_amm_swaps / add_sushiswap_events: rows are keyed, adding a stored row
\* again changes nothing
add_rows(rows, new_rows) == rows \cup new_rows

\* delete_sushiswap_trades_data / delete_sushiswap_events_data: the rows of the
\* table and the ranges of the kind's prefix
delete_data(db) == [ranges |-> [a \in Addresses |-> NoRange], store |-> {}]

\* get_amm_swaps / get_sushiswap_events: the stored rows of an address within
\* [from_ts, to_ts]
get_rows(rows, from_ts, to_ts, address) ==
    {r \in rows : r.address = address /\ from_ts <= r.timestamp /\ r.timestamp <= to_ts}

-----------------------------------------------------------------------------
(* _get_trades and _get_events_balances *)

\* variant of Classify: min_end_ts is the stored end of the last existing
\* address, not the smallest one
Classify_last_end(rs, addresses, to_timestamp) ==
    LET new == SelectSeq(addresses, LAMBDA a : rs[a] = NoRange)
        existing == SelectSeq(addresses, LAMBDA a : rs[a] # NoRange)
    IN  [new_addresses |-> new,
         existing_addresses |-> existing,
         min_end_ts |-> IF existing = <<>> THEN to_timestamp
                        ELSE Min({to_timestamp, rs[existing[Len(existing)]][2]})]

\* The first loop of both methods: the addresses without a stored range, the
\* addresses with one, and the minimum of to_timestamp and the stored ends.
Classify(rs, addresses, to_timestamp) ==
    LET new == SelectSeq(addresses, LAMBDA a : rs[a] = NoRange)
        existing == SelectSeq(addresses, LAMBDA a : rs[a] # NoRange)
    IN  [new_addresses |-> new,
         existing_addresses |-> existing,
         min_end_ts |-> Min({to_timestamp} \cup {rs[a][2] : a \in SeqToSet(existing)})]

\* `if new_addresses:`
NewNeeded(c) == c.new_addresses # <<>>

\* `if existing_addresses and to_timestamp > min_end_ts:`
DeltaNeeded(c, to_timestamp) ==
    c.existing_addresses # <<>> /\ to_timestamp > c.min_end_ts

\* start_ts of the query for the existing addresses
DeltaStart(c) == c.min_end_ts

\* _get_trades_graph of AMMSwapPlatform: one paginated query per address
_get_trades_graph(addresses, start_ts, end_ts, fails) ==
    [a \in SeqToSet(addresses) |->
        <<_get_trades_graph_for_address(a, start_ts, end_ts, fails[a])>>]

\* the inner loops of _get_events_balances: one paginated query per address
\* and EventType
EventsGraph(addresses, start_ts, end_ts, fails) ==
    [a \in SeqToSet(addresses) |->
        [i \in DOMAIN EventTypes |->
            _get_events_graph(a, start_ts, end_ts, EventTypes[i], fails[a])]]

\* variant of RangesAfterNew: start_ts and end_ts passed in the other order
RangesAfterNew_swapped(rs, c, to_timestamp) ==
    IF NewNeeded(c)
    THEN update_used_query_range(rs, c.new_addresses, to_timestamp, 0)
    ELSE rs

\* ranges after the block of the new addresses
RangesAfterNew(rs, c, to_timestamp) ==
    IF NewNeeded(c)
    THEN update_used_query_range(rs, c.new_addresses, 0, to_timestamp)
    ELSE rs

\* ranges after the block of the existing addresses
RangesAfterDelta(rs, c, to_timestamp) ==
    IF DeltaNeeded(c, to_timestamp)
    THEN update_used_query_range(rs, c.existing_addresses, c.min_end_ts, to_timestamp)
    ELSE rs

\* no address queried
NoFetch == [a \in {} |-> <<>>]

\* The rows of what a list of paginated queries returned: `for swap in
\* trade.swaps` of every trade, or the events themselves.
RowsOf(k, results) ==
    LET items == UNION {SeqToSet(results[i].trades) : i \in DOMAIN results}
    IN  IF k = "trades" THEN UNION {SeqToSet(trade.swaps) : trade \in items} ELSE items

\* The rows handed to the DB: those fetched for the addresses of the batch.
AllFetched(k, addresses, fetches) ==
    UNION {RowsOf(k, fetches[a]) : a \in SeqToSet(addresses) \cap DOMAIN fetches}

\* The fetch and write part of _get_trades (k = "trades") and of
\* _get_events_balances (k = "events") on the DB state db.  fails[a] is the
\* ordinal of the request that raises RemoteError in every query for address a.
SyncDb(k, db, addresses, to_timestamp, fails) ==
    LET c == Classify(db.ranges, addresses, to_timestamp)
        graph(as, s) == IF k = "trades"
                        THEN _get_trades_graph(as, s, to_timestamp, fails)
                        ELSE EventsGraph(as, s, to_timestamp, fails)
        newFetch == IF NewNeeded(c) THEN graph(c.new_addresses, 0) ELSE NoFetch
        rs1 == RangesAfterNew(db.ranges, c, to_timestamp)
        deltaFetch == IF DeltaNeeded(c, to_timestamp)
                      THEN graph(c.existing_addresses, DeltaStart(c))
                      ELSE NoFetch
        rs2 == RangesAfterDelta(rs1, c, to_timestamp)
        fetches == newFetch @@ deltaFetch
        fetched == AllFetched(k, addresses, fetches)
    IN  [ranges |-> rs2,
         store |-> add_rows(db.store, fetched),
         new |-> SeqToSet(c.new_addresses),
         windows |-> {<<a, 0, to_timestamp>> : a \in DOMAIN newFetch}
                     \cup {<<a, DeltaStart(c), to_timestamp>> : a \in DOMAIN deltaFetch},
         failed |-> {a \in DOMAIN fetches :
                        \E i \in DOMAIN fetches[a] : fetches[a][i].error},
         broke |-> UNION {{<<a, fetches[a][i].requests>> :
                              i \in {j \in DOMAIN fetches[a] : fetches[a][j].error}} :
                          a \in DOMAIN fetches},
         fetched |-> fetched]

\* `if reset_db_data is True: self.database.delete_sushiswap_trades_data()`
ResetTradesData(reset_db_data, db) ==
    IF reset_db_data THEN delete_data(db) ELSE [ranges |-> db.ranges, store |-> db.store]

\* variant of ReadBack: reads from timestamp 0, where the queries of a new
\* address start, and not from from_timestamp
ReadBack_from_zero(rows, addresses, from_timestamp, to_timestamp) ==
    [a \in {b \in SeqToSet(addresses) : get_rows(rows, 0, to_timestamp, b) # {}} |->
        SortedSeq(get_rows(rows, 0, to_timestamp, a))]

\* _fetch_trades_from_db and the read of _get_events_balances: per address the
\* stored rows of the window, oldest first; no entry for an address without rows
ReadBack(rows, addresses, from_timestamp, to_timestamp) ==
    [a \in {b \in SeqToSet(addresses) : get_rows(rows, from_timestamp, to_timestamp, b) # {}} |->
        SortedSeq(get_rows(rows, from_timestamp, to_timestamp, a))]

-----------------------------------------------------------------------------
(* Calls as single steps *)

\* fails[a]: the request of a query for address a that raises RemoteError
\* (0: none); at most one address of a call meets a failing remote
NoFails == [a \in Addresses |-> 0]

FailsOf(addresses) ==
    {NoFails} \cup
    {[NoFails EXCEPT ![a] = n] : a \in SeqToSet(addresses), n \in 1..MaxRequests}

NoCall ==
    [op |-> "none", addresses |-> <<>>, to_timestamp |-> 0, had_range |-> {}, reset |-> FALSE, new |-> {}, windows |-> {},
     failed |-> {}, broke |-> {}, fetched |-> {}, repeat |-> FALSE, incremental |-> FALSE]

\* What a sync call leaves in `last`: its arguments, the addresses that had a
\* range before it, what it classified as new, the windows it queried, the
\* addresses for which a query raised RemoteError (broke: with the number of
\* requests that query had issued), the rows it fetched, and how
\* it relates to the call before it (repeat: same operation, batch and
\* to_timestamp; incremental: the call before was the first sync of the single
\* address of this batch, with a smaller to_timestamp).
Observe(op, addresses, reset, to_timestamp, r) ==
    [op |-> op, addresses |-> addresses, to_timestamp |-> to_timestamp,
     had_range |-> {a \in Addresses : ranges[a] # NoRange},
     reset |-> reset, new |-> r.new, windows |-> r.windows,
     failed |-> r.failed, broke |-> r.broke, fetched |-> r.fetched,
     repeat |-> /\ last.op = op
                /\ last.addresses = addresses
                /\ last.to_timestamp = to_timestamp
                /\ ~reset,
     incremental |-> /\ last.op = op
                     /\ Len(addresses) = 1
                     /\ last.addresses = addresses
                     /\ last.new = SeqToSet(addresses)
                     /\ last.to_timestamp < to_timestamp
                     /\ ~reset]

\* no staking history requested
NoStaking == [events |-> <<>>, balances |-> <<>>, staking_details |-> <<>>]

Idle ==
    /\ staking = NoStaking
    /\ pg = NoQuery
    /\ pc = [p \in Callers |-> "idle"]
    /\ frame = [p \in Callers |-> <<>>]
    /\ trades_lock = 0
    /\ ncalls = 0

Init ==
    /\ kind \in Kinds
    /\ ranges = [a \in Addresses |-> NoRange]
    /\ store = {}
    /\ last = NoCall
    /\ Idle

\* get_trades_history(addresses, reset_db_data, from_timestamp, to_timestamp).
\* from_timestamp only selects what is returned, see Returned.
get_trades_history(addresses, reset_db_data, to_timestamp, fails) ==
    /\ kind = "trades"
    /\ \E r \in {SyncDb("trades",
                        ResetTradesData(reset_db_data, [ranges |-> ranges, store |-> store]),
                        addresses, to_timestamp, fails)} :
           /\ ranges' = r.ranges
           /\ store' = r.store
           /\ last' = Observe("trades", addresses, reset_db_data, to_timestamp, r)
    /\ UNCHANGED <<kind, ncalls, pg, pc, frame, trades_lock, staking>>

\* _get_events_balances(addresses, from_timestamp, to_timestamp)
_get_events_balances(addresses, to_timestamp, fails) ==
    /\ kind = "events"
    /\ \E r \in {SyncDb("events", [ranges |-> ranges, store |-> store],
                        addresses, to_timestamp, fails)} :
           /\ ranges' = r.ranges
           /\ store' = r.store
           /\ last' = Observe("events", addresses, FALSE, to_timestamp, r)
    /\ UNCHANGED <<kind, ncalls, pg, pc, frame, trades_lock, staking>>

\* deactivate(): both deletes; the behaviour sees the one of its kind
deactivate ==
    /\ \E db \in {delete_data([ranges |-> ranges, store |-> store])} :
           /\ ranges' = db.ranges
           /\ store' = db.store
    /\ last' = [NoCall EXCEPT !.op = "deactivate",
                            !.had_range = {a \in Addresses : ranges[a] # NoRange}]
    /\ UNCHANGED <<kind, ncalls, pg, pc, frame, trades_lock, staking>>

\* What the last sync call returned for a requested from_timestamp: the rows
\* read back after the write.
Returned(from_timestamp) ==
    ReadBack(store, last.addresses, from_timestamp, last.to_timestamp)

Next ==
    \/ \E addresses \in Batches, reset_db_data \in BOOLEAN, to_timestamp \in Timestamps :
          \E fails \in FailsOf(addresses) :
            get_trades_history(addresses, reset_db_data, to_timestamp, fails)
    \/ \E addresses \in Batches, to_timestamp \in Timestamps :
          \E fails \in FailsOf(addresses) :
            _get_events_balances(addresses, to_timestamp, fails)
    \/ deactivate

Spec == Init /\ [][Next]_vars

-----------------------------------------------------------------------------
(* Properties of the calls *)

Syncs == {"trades", "events"}

\* C1: across sync calls (no reset) the stored range end of an address never
\* decreases.
C1_RangeEndNeverDecreases ==
    [][(last'.op \in Syncs /\ ~last'.reset) =>
        \A a \in Addresses :
            (ranges[a] # NoRange /\ ranges'[a] # NoRange) => ranges'[a][2] >= ranges[a][2]]_vars

\* C2: a trades sync call in which the swaps query for an address raised
\* RemoteError leaves the stored range of that address as it was (absent stays
\* absent).
C2_FailedFetchKeepsRange ==
    [][(last'.op = "trades" /\ ~last'.reset) =>
        \A a \in last'.failed : ranges'[a] = ranges[a]]_vars

\* C3: between calls, every swap the subgraph holds for an address with a
\* timestamp inside the address's stored trades range is in the local table.
C3_Coverage ==
    \A a \in Addresses :
        (kind = "trades" /\ ranges[a] # NoRange) =>
            \A r \in RemoteData(kind) :
                (r.address = a /\ ranges[a][1] <= r.timestamp /\ r.timestamp <= ranges[a][2])
                    => AMMSwap(r) \in store

\* C23: in a sync call without reset, the addresses of the batch that had a
\* range are queried exactly when one of them has a stored end below
\* to_timestamp, all of them over the window from the smallest of their stored
\* ends to to_timestamp; otherwise none of them is queried and their ranges
\* stay as they were.
C23_BatchedDeltaBound ==
    [][(last'.op \in Syncs /\ ~last'.reset) =>
        LET existing == {a \in SeqToSet(last'.addresses) : ranges[a] # NoRange}
            behind == \E a \in existing : ranges[a][2] < last'.to_timestamp
            lower == Min({ranges[a][2] : a \in existing})
            queried == {w \in last'.windows : w[1] \in existing}
        IN  IF behind
            THEN /\ queried = {<<a, lower, last'.to_timestamp>> : a \in existing}
                 /\ \A a \in existing : ranges'[a] = <<lower, last'.to_timestamp>>
            ELSE /\ queried = {}
                 /\ \A a \in existing : ranges'[a] = ranges[a]]_vars

\* a call that queried two addresses with a range from a lower bound above 0
C23_Witness ==
    /\ last.op \in Syncs
    /\ last.had_range = Addresses
    /\ \E lower \in 1..MaxTs :
          /\ lower < last.to_timestamp
          /\ last.windows = {<<a, lower, last.to_timestamp>> : a \in Addresses}

\* C5: a sync call repeating the previous call's batch and to_timestamp issues
\* no remote history query and leaves the ranges and the table as the first
\* call left them.
C5_IdempotentSync ==
    [][last'.repeat =>
        /\ last'.windows = {}
        /\ ranges' = ranges
        /\ store' = store]_vars

\* a repeated call after a first call that fetched and stored rows
C5_Witness ==
    /\ last.repeat
    /\ Len(last.addresses) = 2
    /\ \A a \in Addresses : ranges[a] # NoRange /\ get_rows(store, 0, MaxTs, a) # {}

IsAscending(rows) ==
    \A i, j \in DOMAIN rows : i < j => rows[i].timestamp <= rows[j].timestamp

\* C6: the first sync of an address A without a range, alone in its batch, with
\* to_timestamp T1 queries [0, T1], stores what it fetched and the range
\* <<0, T1>>; the next sync of A alone with T2 > T1 queries only [T1, T2], and
\* what it returns for [0, T2] is the union of the rows of both fetches, each
\* once, oldest first.
C6_IncrementalScenario ==
    [][/\ (last'.op \in Syncs /\ Len(last'.addresses) = 1
              /\ last'.new = SeqToSet(last'.addresses)) =>
            LET A == last'.addresses[1]
                T1 == last'.to_timestamp
            IN  /\ last'.windows = {<<A, 0, T1>>}
                /\ ranges'[A] = <<0, T1>>
                /\ last'.fetched \subseteq store'
       /\ last'.incremental =>
            LET A == last'.addresses[1]
                T1 == last.to_timestamp
                T2 == last'.to_timestamp
                both == last.fetched \cup last'.fetched
                back == ReadBack(store', last'.addresses, 0, T2)
            IN  /\ ranges[A] = <<0, T1>>
                /\ last'.windows = {<<A, T1, T2>>}
                /\ IF both = {} THEN DOMAIN back = {}
                   ELSE /\ DOMAIN back = {A}
                        /\ SeqToSet(back[A]) = both
                        /\ Len(back[A]) = Cardinality(both)
                        /\ IsAscending(back[A])]_vars

\* the second sync of the scenario, both fetches without a failure and the
\* second one bringing rows the first did not
C6_Witness ==
    /\ last.incremental
    /\ last.failed = {}
    /\ Cardinality(last.fetched) >= 2
    /\ Cardinality(get_rows(store, 0, MaxTs, last.addresses[1])) > Cardinality(last.fetched)

\* C7: after deactivate no range is stored; get_trades_history with
\* reset_db_data classifies every address of its batch as new, queries
\* [0, to_timestamp] for each and leaves no range for the addresses outside the
\* batch; the first sync after deactivate classifies every address as new and
\* queries [0, to_timestamp] for each.
C7_DeletionClearsCoverage ==
    [][/\ last'.op = "deactivate" => \A a \in Addresses : ranges'[a] = NoRange
       /\ (last'.op = "trades" /\ last'.reset) =>
            /\ last'.new = SeqToSet(last'.addresses)
            /\ last'.windows = {<<a, 0, last'.to_timestamp>> : a \in SeqToSet(last'.addresses)}
            /\ \A a \in Addresses \ SeqToSet(last'.addresses) : ranges'[a] = NoRange
       /\ (last.op = "deactivate" /\ last'.op \in Syncs) =>
            /\ last'.new = SeqToSet(last'.addresses)
            /\ last'.windows = {<<a, 0, last'.to_timestamp>> : a \in SeqToSet(last'.addresses)}]_vars

\* a reset call for one address while both addresses had a stored range
C7_Witness ==
    /\ last.op = "trades"
    /\ last.reset
    /\ last.had_range = Addresses
    /\ Len(last.addresses) = 1
    /\ last.new = SeqToSet(last.addresses)

\* C11: in a sync call an address of the batch whose stored end is at or after
\* to_timestamp is not queried and keeps its stored range.
C11_PerAddressSkip ==
    [][(last'.op \in Syncs /\ ~last'.reset) =>
        \A a \in SeqToSet(last'.addresses) :
            (ranges[a] # NoRange /\ ranges[a][2] >= last'.to_timestamp) =>
                /\ \A w \in last'.windows : w[1] # a
                /\ ranges'[a] = ranges[a]]_vars

\* C12: a sync call leaves the start of a range stored with start 0 at 0.
C12_RangeStartFixed ==
    [][(last'.op \in Syncs /\ ~last'.reset) =>
        \A a \in Addresses :
            (ranges[a] # NoRange /\ ranges[a][1] = 0 /\ ranges'[a] # NoRange) =>
                ranges'[a][1] = 0]_vars

\* C13: every stored range has start <= end.
C13_WellFormedRanges ==
    \A a \in Addresses : ranges[a] # NoRange => ranges[a][1] <= ranges[a][2]

\* a range written by the block of the existing addresses (start above 0),
\* next to one written by the block of the new addresses with to_timestamp 0
C13_Witness ==
    \E a, b \in Addresses :
        /\ ranges[a] # NoRange /\ ranges[a][1] > 0
        /\ ranges[b] = <<0, 0>>

-----------------------------------------------------------------------------
(* One paginated query, request by request *)

\* what the subgraph holds for a balance or a price query: one row per
\* position, ok[i] telling whether the addresses of row i deserialize
StrictRows(ok) == [i \in DOMAIN ok |-> [position |-> i, ok |-> ok[i]]]

\* the shapes of a transaction: how the fields of each of its swaps read
TxShapes ==
    {<<"ok">>, <<"bad_address">>, <<"bad_amount", "ok">>, <<"ok", "bad_address">>}

\* swaps entries of one address: entry i is a transaction at timestamp i with
\* the swaps of shapes[i], log indexes ascending
ShapedEntries(shapes) ==
    [i \in DOMAIN shapes |->
        Entry([j \in DOMAIN shapes[i] |->
            Swap("a1", i, j, shapes[i][j], "p1", BuyAmounts)])]

\* lists of at most MaxTs + 1 elements of S
ListsOf(S) == UNION {[1..n -> S] : n \in 0..(MaxTs + 1)}

\* the row lists a query of the module can meet
RowsFor(query) ==
    IF query = "swaps"
    THEN {QueryRows("trades", "swap", a, s, e) : a \in Addresses, s \in Timestamps, e \in Timestamps}
         \cup {ShapedEntries(shapes) : shapes \in ListsOf(TxShapes)}
    ELSE {StrictRows(ok) : ok \in ListsOf(BOOLEAN)}

\* param_values is built with offset 0 before the loop
StartQuery(query, rows, failAt) ==
    /\ pg.status # "running"
    /\ pg' = NewQuery(query, rows, failAt)
    /\ UNCHANGED <<kind, ncalls, ranges, store, last, pc, frame, trades_lock, staking>>

\* one iteration of `while True`; the guard on the number of requests caps a
\* loop that would not end
Request ==
    /\ pg.status = "running"
    /\ Len(pg.requests) <= MaxRequests
    /\ pg' = PageStep(pg)
    /\ UNCHANGED <<kind, ncalls, ranges, store, last, pc, frame, trades_lock, staking>>

PageInit ==
    /\ kind = "trades"
    /\ ranges = [a \in Addresses |-> NoRange]
    /\ store = {}
    /\ last = NoCall
    /\ Idle

PageNext ==
    \/ \E query \in Queries \ {"events"}, failAt \in 0..MaxRequests :
          \E rows \in RowsFor(query) : StartQuery(query, rows, failAt)
    \/ Request

\* The loop body runs to its end once entered: graph.query returns or raises.
PageSpec == PageInit /\ [][PageNext]_vars /\ WF_vars(Request)

Ceil(n, l) == (n + l - 1) \div l

\* rows whose every record deserializes: each adds one item to the accumulator
WellFormed(query, rows) ==
    \A i \in DOMAIN rows :
        IF query = "swaps"
        THEN \A j \in DOMAIN rows[i].transaction.swaps :
                rows[i].transaction.swaps[j].raw = "ok"
        ELSE rows[i].ok

\* C8: the requests of a query have limit GRAPH_QUERY_LIMIT and the offsets 0,
\* L, 2L, ... in order; every page before the last request was full; a query
\* that ended without RemoteError over N rows issued ceil(N/L) requests
\* (ceil(N/L)+1 when L divides N), ended on a short page and accumulated the
\* items of exactly the N rows in order, one per row and none twice when
\* every row deserializes.
C8_PaginationProtocol ==
    LET L == GRAPH_QUERY_LIMIT
        N == Len(pg.rows)
        n == Len(pg.requests)
    IN  /\ \A i \in 1..n : pg.requests[i] = [limit |-> L, offset |-> (i - 1) * L]
        /\ pg.status = "running" =>
            /\ n * L <= N
            /\ pg.acc = PageItems(pg.query, SubSeq(pg.rows, 1, n * L))
        /\ pg.status = "done" =>
            /\ n = IF N % L = 0 THEN Ceil(N, L) + 1 ELSE Ceil(N, L)
            /\ n >= 1
            /\ N - (n - 1) * L < L
            /\ pg.acc = PageItems(pg.query, pg.rows)
            /\ WellFormed(pg.query, pg.rows) =>
                /\ Len(pg.acc) = N
                /\ \A i, j \in DOMAIN pg.acc : pg.acc[i] = pg.acc[j] => i = j

\* a query over a multiple of L well-formed rows that ended after its extra
\* request
C8_Witness ==
    /\ pg.status = "done"
    /\ Len(pg.rows) = GRAPH_QUERY_LIMIT
    /\ Len(pg.requests) = 2
    /\ pg.query = "swaps"
    /\ WellFormed(pg.query, pg.rows)
    /\ Len(pg.acc) = GRAPH_QUERY_LIMIT

\* C9: every query loop ends (short page or RemoteError), and while it runs
\* every page so far was full and no request failed; once ended it issues no
\* further request.
C9_Termination ==
    /\ (pg.status = "running") ~> (pg.status \in {"done", "error"})
    /\ [](pg.status = "running" => Len(pg.requests) * GRAPH_QUERY_LIMIT <= Len(pg.rows))
    /\ [][pg.status \in {"done", "error"} => (pg'.requests = <<>> \/ pg' = pg)]_vars

\* a loop ended by RemoteError on its second request, the first page kept
C9_Witness ==
    /\ pg.status = "error"
    /\ pg.query = "swaps"
    /\ pg.failAt = 2
    /\ Len(pg.requests) = 2
    /\ Len(pg.acc) = GRAPH_QUERY_LIMIT

\* C14: a liquidityPositions or tokenDayDatas query that met a RemoteError on
\* any request, or a record whose address does not deserialize on any page,
\* ended with RemoteError on that request and hands nothing back; no other
\* query of these two ends with an error.
C14_StrictAllOrNothing ==
    LET L == GRAPH_QUERY_LIMIT
        n == Len(pg.requests)
        seen == SubSeq(pg.rows, 1, Min({n * L, Len(pg.rows)}))
    IN  (pg.query \in {"liquidityPositions", "tokenDayDatas"} /\ pg.status # "idle") =>
            /\ ((pg.failAt # 0 /\ pg.failAt = n) \/ ~WellFormed(pg.query, seen))
                    <=> pg.status = "error"
            /\ pg.status = "error" => pg.acc = <<>>

\* a price query stopped by a bad record on its second page, after a full
\* first page of good records
C14_Witness ==
    /\ pg.query = "tokenDayDatas"
    /\ pg.status = "error"
    /\ pg.failAt = 0
    /\ Len(pg.requests) = 2
    /\ pg.acc = <<>>
    /\ WellFormed(pg.query, SubSeq(pg.rows, 1, GRAPH_QUERY_LIMIT))

\* the swaps of a list of trades, in order
RECURSIVE SwapsOfTrades(_)
SwapsOfTrades(trades) ==
    IF trades = <<>> THEN <<>> ELSE Head(trades).swaps \o SwapsOfTrades(Tail(trades))

\* the swaps of a list of entries, in order
RECURSIVE SwapsOfEntries(_)
SwapsOfEntries(entries) ==
    IF entries = <<>> THEN <<>>
    ELSE Head(entries).transaction.swaps \o SwapsOfEntries(Tail(entries))

\* C20: a swaps query that met no RemoteError ends without an error whatever
\* its entries hold; its trades hold exactly the swaps whose fields all
\* deserialize, in order, and it has one trade per transaction with such a
\* swap, none for a transaction without.
C20_MalformedLegsSkipped ==
    (pg.query = "swaps" /\ pg.status # "idle" /\ pg.failAt = 0) =>
        /\ pg.status # "error"
        /\ pg.status = "done" =>
            LET good == SelectSeq(SwapsOfEntries(pg.rows), LAMBDA swap : swap.raw = "ok")
                txs == SelectSeq(pg.rows, LAMBDA entry :
                           \E j \in DOMAIN entry.transaction.swaps :
                               entry.transaction.swaps[j].raw = "ok")
            IN  /\ SwapsOfTrades(pg.acc) = [i \in DOMAIN good |-> AMMSwap(good[i])]
                /\ Len(pg.acc) = Len(txs)
                /\ \A i \in DOMAIN pg.acc : Len(pg.acc[i].swaps) > 0

\* a finished query whose first transaction has no swap that deserializes,
\* its second one a swap with a bad amount and a good swap, and a further page
\* after them
C20_Witness ==
    /\ pg.query = "swaps"
    /\ pg.status = "done"
    /\ Len(pg.rows) > GRAPH_QUERY_LIMIT
    /\ Len(pg.rows[1].transaction.swaps) = 1
    /\ pg.rows[1].transaction.swaps[1].raw = "bad_address"
    /\ Len(pg.rows[2].transaction.swaps) = 2
    /\ pg.rows[2].transaction.swaps[1].raw = "bad_amount"
    /\ pg.rows[2].transaction.swaps[2].raw = "ok"
    /\ Len(pg.acc) >= 2

-----------------------------------------------------------------------------
(* get_trades_history statement by statement, with concurrent callers *)

\* `with self.trades_lock:` blocks until no caller holds the lock
LockFree(lock) == lock = 0

\* the statements of the locked section, in program order
Section ==
    {"reset", "classify", "fetch_new", "range_new", "fetch_delta", "range_delta",
     "persist", "return"}

\* locals of a caller outside the locked section
NoFrame == <<>>

Db == [ranges |-> ranges, store |-> store]

\* a caller enters get_trades_history and reaches `with self.trades_lock:`
Call(p) ==
    /\ pc[p] = "idle"
    /\ ncalls < MaxCalls
    /\ ncalls' = ncalls + 1
    /\ pc' = [pc EXCEPT ![p] = "lock"]
    /\ UNCHANGED <<kind, ranges, store, last, pg, frame, trades_lock, staking>>

\* the lock is taken; the arguments of the call are first read inside the
\* section.  _get_trades starts with empty address_amm_trades.
Acquire(p, addresses, reset_db_data, to_timestamp) ==
    /\ pc[p] = "lock"
    /\ LockFree(trades_lock)
    /\ trades_lock' = p
    /\ pc' = [pc EXCEPT ![p] = "reset"]
    /\ frame' = [frame EXCEPT ![p] =
           [addresses |-> addresses, reset_db_data |-> reset_db_data,
            to_timestamp |-> to_timestamp,
            c |-> Classify([a \in Addresses |-> NoRange], <<>>, to_timestamp),
            address_amm_trades |-> NoFetch,
            advanced |-> {}, written |-> FALSE]]
    /\ UNCHANGED <<kind, ncalls, ranges, store, last, pg, staking>>

\* `if reset_db_data is True: self.database.delete_sushiswap_trades_data()`
ResetStep(p) ==
    /\ pc[p] = "reset"
    /\ \E db \in {ResetTradesData(frame[p].reset_db_data, Db)} :
           /\ ranges' = db.ranges
           /\ store' = db.store
    /\ pc' = [pc EXCEPT ![p] = "classify"]
    /\ UNCHANGED <<kind, ncalls, last, pg, frame, trades_lock, staking>>

\* the loop over get_used_query_range
ClassifyStep(p) ==
    /\ pc[p] = "classify"
    /\ frame' = [frame EXCEPT ![p].c = Classify(ranges, frame[p].addresses, frame[p].to_timestamp)]
    /\ pc' = [pc EXCEPT ![p] = "fetch_new"]
    /\ UNCHANGED <<kind, ncalls, ranges, store, last, pg, trades_lock, staking>>

\* `if new_addresses:` _get_trades_graph for the new addresses
FetchNew(p) ==
    /\ pc[p] = "fetch_new"
    /\ LET f == frame[p]
       IN  \E fails \in FailsOf(f.c.new_addresses) :
             frame' = [frame EXCEPT ![p].address_amm_trades =
                 IF NewNeeded(f.c)
                 THEN _get_trades_graph(f.c.new_addresses, 0, f.to_timestamp, fails) @@ @
                 ELSE @]
    /\ pc' = [pc EXCEPT ![p] = "range_new"]
    /\ UNCHANGED <<kind, ncalls, ranges, store, last, pg, trades_lock, staking>>

\* the update_used_query_range loop of the new addresses
RangeNew(p) ==
    /\ pc[p] = "range_new"
    /\ LET f == frame[p]
       IN  /\ ranges' = RangesAfterNew(ranges, f.c, f.to_timestamp)
           /\ frame' = [frame EXCEPT ![p].advanced =
                  IF NewNeeded(f.c) THEN @ \cup SeqToSet(f.c.new_addresses) ELSE @]
    /\ pc' = [pc EXCEPT ![p] = "fetch_delta"]
    /\ UNCHANGED <<kind, ncalls, store, last, pg, trades_lock, staking>>

\* `if existing_addresses and to_timestamp > min_end_ts:` _get_trades_graph for
\* the existing addresses
FetchDelta(p) ==
    /\ pc[p] = "fetch_delta"
    /\ LET f == frame[p]
       IN  \E fails \in FailsOf(f.c.existing_addresses) :
             frame' = [frame EXCEPT ![p].address_amm_trades =
                 IF DeltaNeeded(f.c, f.to_timestamp)
                 THEN _get_trades_graph(f.c.existing_addresses, DeltaStart(f.c),
                                        f.to_timestamp, fails) @@ @
                 ELSE @]
    /\ pc' = [pc EXCEPT ![p] = "range_delta"]
    /\ UNCHANGED <<kind, ncalls, ranges, store, last, pg, trades_lock, staking>>

\* the update_used_query_range loop of the existing addresses
RangeDelta(p) ==
    /\ pc[p] = "range_delta"
    /\ LET f == frame[p]
       IN  /\ ranges' = RangesAfterDelta(ranges, f.c, f.to_timestamp)
           /\ frame' = [frame EXCEPT ![p].advanced =
                  IF DeltaNeeded(f.c, f.to_timestamp)
                  THEN @ \cup SeqToSet(f.c.existing_addresses) ELSE @]
    /\ pc' = [pc EXCEPT ![p] = "persist"]
    /\ UNCHANGED <<kind, ncalls, store, last, pg, trades_lock, staking>>

\* all_swaps and add_amm_swaps
Persist(p) ==
    /\ pc[p] = "persist"
    /\ store' = add_rows(store, AllFetched("trades", frame[p].addresses, frame[p].address_amm_trades))
    /\ frame' = [frame EXCEPT ![p].written = TRUE]
    /\ pc' = [pc EXCEPT ![p] = "return"]
    /\ UNCHANGED <<kind, ncalls, ranges, last, pg, trades_lock, staking>>

\* _fetch_trades_from_db, the end of the `with` block and the return
Return(p) ==
    /\ pc[p] = "return"
    /\ trades_lock' = 0
    /\ pc' = [pc EXCEPT ![p] = "idle"]
    /\ frame' = [frame EXCEPT ![p] = NoFrame]
    /\ UNCHANGED <<kind, ncalls, ranges, store, last, pg, staking>>

\* deactivate() of another thread: it takes no lock
DeactivateStep ==
    /\ \E db \in {delete_data(Db)} :
           /\ ranges' = db.ranges
           /\ store' = db.store
    /\ UNCHANGED <<kind, ncalls, last, pg, pc, frame, trades_lock, staking>>

StepInit ==
    /\ kind = "trades"
    /\ ranges = [a \in Addresses |-> NoRange]
    /\ store = {}
    /\ last = NoCall
    /\ Idle

StepNext ==
    \/ \E p \in Callers : Call(p)
    \/ \E p \in Callers, addresses \in Batches, reset_db_data \in BOOLEAN,
          to_timestamp \in Timestamps :
          Acquire(p, addresses, reset_db_data, to_timestamp)
    \/ \E p \in Callers : ResetStep(p)
    \/ \E p \in Callers : ClassifyStep(p)
    \/ \E p \in Callers : FetchNew(p)
    \/ \E p \in Callers : RangeNew(p)
    \/ \E p \in Callers : FetchDelta(p)
    \/ \E p \in Callers : RangeDelta(p)
    \/ \E p \in Callers : Persist(p)
    \/ \E p \in Callers : Return(p)
    \/ DeactivateStep

StepSpec == StepInit /\ [][StepNext]_vars

\* C4: whenever a call has written the range of an address, its add_amm_swaps
\* has completed.
C4_RangeAfterWrite ==
    \A p \in Callers :
        (pc[p] \in Section /\ frame[p].advanced # {}) => frame[p].written

\* C10: at most one caller is inside the locked section, and it holds the
\* lock from the reset to the return.
C10_TradesLockSerializes ==
    /\ \A p, q \in Callers : (pc[p] \in Section /\ pc[q] \in Section) => p = q
    /\ \A p \in Callers : pc[p] \in Section => trades_lock = p
    /\ trades_lock # 0 => pc[trades_lock] \in Section

\* one caller about to write its swaps while another waits for the lock
C10_Witness ==
    \E p, q \in Callers :
        /\ pc[p] = "persist"
        /\ frame[p].reset_db_data
        /\ frame[p].address_amm_trades # NoFetch
        /\ pc[q] = "lock"

-----------------------------------------------------------------------------
(* _get_events_balances statement by statement *)

\* the thread that calls _get_events_balances
EventsCaller == 1

\* variant of SnapshotWanted: the balances are requested in every call
SnapshotWanted_always(from_timestamp) == TRUE

\* `if from_timestamp == Timestamp(0):`
SnapshotWanted(from_timestamp) == from_timestamp = 0

\* What get_balances can hand back: for some of the addresses a list holding
\* the balance of one pool.
BalancesOf(addresses) ==
    {[a \in S |-> <<[pool |-> "p1", amount |-> 1]>>] : S \in SUBSET SeqToSet(addresses)}

\* variant of BalancesFor: an address without balances gets a unit balance
BalancesFor_default(address_balances, address) ==
    IF address \in DOMAIN address_balances
    THEN address_balances[address]
    ELSE <<[pool |-> "p1", amount |-> 1]>>

\* `address_balances.get(address, [])`
BalancesFor(address_balances, address) ==
    IF address \in DOMAIN address_balances THEN address_balances[address] ELSE <<>>

\* the sum of a list of numbers
RECURSIVE Sum(_)
Sum(list) == IF list = <<>> THEN 0 ELSE Head(list) + Sum(Tail(list))

\* _calculate_events_balances of AMMSwapPlatform for one pool: the balance of
\* the snapshot plus what the burns took out minus what the mints put in; every
\* event of the model moves one unit.
_calculate_events_balances(address, events, balances) ==
    [address |-> address,
     events |-> events,
     profit_loss |->
        Sum([i \in DOMAIN balances |-> balances[i].amount])
        + Sum([i \in DOMAIN events |-> IF events[i].type = "burn" THEN 1 ELSE 0])
        - Sum([i \in DOMAIN events |-> IF events[i].type = "mint" THEN 1 ELSE 0])]

\* _get_events_balances is entered: the locals are empty
EvCall(p, addresses, from_timestamp, to_timestamp) ==
    /\ pc[p] = "idle"
    /\ ncalls < MaxCalls
    /\ ncalls' = ncalls + 1
    /\ pc' = [pc EXCEPT ![p] = "ev_classify"]
    /\ frame' = [frame EXCEPT ![p] =
           [addresses |-> addresses, from_timestamp |-> from_timestamp,
            to_timestamp |-> to_timestamp,
            c |-> Classify([a \in Addresses |-> NoRange], <<>>, to_timestamp),
            address_events |-> NoFetch,
            all_events |-> <<>>,
            windows |-> {}, failed |-> {},
            db_address_events |-> NoFetch,
            snapshot |-> "none",
            address_balances |-> NoFetch,
            calculated |-> NoFetch,
            address_events_balances |-> NoFetch]]
    /\ UNCHANGED <<kind, ranges, store, last, pg, trades_lock, staking>>

\* the batches of a call of _get_events_balances: also one address given twice
EventsBatches == Batches \cup {<<a, a>> : a \in Addresses}

\* how often an address is in a list
Occurrences(addresses, a) == Len(SelectSeq(addresses, LAMBDA b : b = a))

RECURSIVE Repeat(_, _)
Repeat(list, n) == IF n = 0 THEN <<>> ELSE list \o Repeat(list, n - 1)

\* `for address in new_addresses: for event_type in EventType:` with
\* `address_events[address].extend(...)`: the results of the queries of an
\* address, once for every time the address is in the list
EventsFetched(addresses, start_ts, end_ts, fails) ==
    LET graph == EventsGraph(addresses, start_ts, end_ts, fails)
    IN  [a \in DOMAIN graph |-> Repeat(graph[a], Occurrences(addresses, a))]

\* the events of a list of query results, in order
RECURSIVE EventsOf(_)
EventsOf(results) ==
    IF results = <<>> THEN <<>> ELSE Head(results).trades \o EventsOf(Tail(results))

\* `all_events = []` and `all_events.extend(address_events[address])` for every
\* address of the batch that has events
RECURSIVE AllEvents(_, _)
AllEvents(addresses, address_events) ==
    IF addresses = <<>> THEN <<>>
    ELSE (IF Head(addresses) \in DOMAIN address_events
          THEN EventsOf(address_events[Head(addresses)])
          ELSE <<>>)
         \o AllEvents(Tail(addresses), address_events)

\* the addresses of a list of fetches whose queries met a RemoteError
FailedIn(fetch) ==
    {a \in DOMAIN fetch : \E i \in DOMAIN fetch[a] : fetch[a][i].error}

\* the loop over get_used_query_range
EvClassify(p) ==
    /\ pc[p] = "ev_classify"
    /\ frame' = [frame EXCEPT ![p].c = Classify(ranges, frame[p].addresses, frame[p].to_timestamp)]
    /\ pc' = [pc EXCEPT ![p] = "ev_fetch_new"]
    /\ UNCHANGED <<kind, ncalls, ranges, store, last, pg, trades_lock, staking>>

\* `if new_addresses:` the queries of every new address, each followed by
\* its update_used_query_range
EvFetchNew(p) ==
    /\ pc[p] = "ev_fetch_new"
    /\ LET f == frame[p]
       IN  \E fails \in FailsOf(f.c.new_addresses) :
             LET fetch == IF NewNeeded(f.c)
                          THEN EventsFetched(f.c.new_addresses, 0, f.to_timestamp, fails)
                          ELSE NoFetch
             IN  /\ frame' = [frame EXCEPT
                        ![p].address_events = fetch @@ @,
                        ![p].windows = @ \cup {<<a, 0, f.to_timestamp>> : a \in DOMAIN fetch},
                        ![p].failed = @ \cup FailedIn(fetch)]
                 /\ ranges' = RangesAfterNew(ranges, f.c, f.to_timestamp)
    /\ pc' = [pc EXCEPT ![p] = "ev_fetch_delta"]
    /\ UNCHANGED <<kind, ncalls, store, last, pg, trades_lock, staking>>

\* `if existing_addresses and to_timestamp > min_end_ts:` the queries of every
\* existing address, each followed by its update_used_query_range
EvFetchDelta(p) ==
    /\ pc[p] = "ev_fetch_delta"
    /\ LET f == frame[p]
       IN  \E fails \in FailsOf(f.c.existing_addresses) :
             LET fetch == IF DeltaNeeded(f.c, f.to_timestamp)
                          THEN EventsFetched(f.c.existing_addresses, DeltaStart(f.c),
                                           f.to_timestamp, fails)
                          ELSE NoFetch
             IN  /\ frame' = [frame EXCEPT
                        ![p].address_events = fetch @@ @,
                        ![p].windows = @ \cup {<<a, DeltaStart(f.c), f.to_timestamp>> :
                                                  a \in DOMAIN fetch},
                        ![p].failed = @ \cup FailedIn(fetch)]
                 /\ ranges' = RangesAfterDelta(ranges, f.c, f.to_timestamp)
    /\ pc' = [pc EXCEPT ![p] = "ev_persist"]
    /\ UNCHANGED <<kind, ncalls, store, last, pg, trades_lock, staking>>

\* variant of EvPersist: the write is followed by the queries of the existing
\* addresses once more
EvPersist_refetch(p) ==
    /\ pc[p] = "ev_persist"
    /\ LET all_events == AllEvents(frame[p].addresses, frame[p].address_events)
       IN  /\ store' = add_rows(store, SeqToSet(all_events))
           /\ frame' = [frame EXCEPT ![p].all_events = all_events]
    /\ pc' = [pc EXCEPT ![p] = "ev_fetch_delta"]
    /\ UNCHANGED <<kind, ncalls, ranges, last, pg, trades_lock, staking>>

\* all_events and add_sushiswap_events
EvPersist(p) ==
    /\ pc[p] = "ev_persist"
    /\ LET all_events == AllEvents(frame[p].addresses, frame[p].address_events)
       IN  /\ store' = add_rows(store, SeqToSet(all_events))
           /\ frame' = [frame EXCEPT ![p].all_events = all_events]
    /\ pc' = [pc EXCEPT ![p] = "ev_readback"]
    /\ UNCHANGED <<kind, ncalls, ranges, last, pg, trades_lock, staking>>

\* the loop over get_sushiswap_events
EvReadBack(p) ==
    /\ pc[p] = "ev_readback"
    /\ frame' = [frame EXCEPT ![p].db_address_events =
           ReadBack(store, frame[p].addresses, frame[p].from_timestamp, frame[p].to_timestamp)]
    /\ pc' = [pc EXCEPT ![p] = "ev_balances"]
    /\ UNCHANGED <<kind, ncalls, ranges, store, last, pg, trades_lock, staking>>

\* `address_balances = {}`, and for from_timestamp 0 get_balances(addresses),
\* which returns or lets the RemoteError of its queries pass
EvBalances(p) ==
    /\ pc[p] = "ev_balances"
    /\ IF SnapshotWanted(frame[p].from_timestamp)
       THEN \/ /\ \E balances \in BalancesOf(frame[p].addresses) :
                    frame' = [frame EXCEPT ![p].snapshot = "returned",
                                           ![p].address_balances = balances]
               /\ pc' = [pc EXCEPT ![p] = "ev_calculate"]
            \/ /\ frame' = [frame EXCEPT ![p].snapshot = "raised"]
               /\ pc' = [pc EXCEPT ![p] = "ev_raised"]
       ELSE /\ frame' = frame
            /\ pc' = [pc EXCEPT ![p] = "ev_calculate"]
    /\ UNCHANGED <<kind, ncalls, ranges, store, last, pg, trades_lock, staking>>

\* the loop over db_address_events.items()
EvCalculate(p) ==
    /\ pc[p] = "ev_calculate"
    /\ LET f == frame[p]
           args == [a \in DOMAIN f.db_address_events |->
                       [events |-> f.db_address_events[a],
                        balances |-> BalancesFor(f.address_balances, a)]]
       IN  frame' = [frame EXCEPT
               ![p].calculated = args,
               ![p].address_events_balances =
                   [a \in DOMAIN args |->
                       _calculate_events_balances(a, args[a].events, args[a].balances)]]
    /\ pc' = [pc EXCEPT ![p] = "ev_return"]
    /\ UNCHANGED <<kind, ncalls, ranges, store, last, pg, trades_lock, staking>>

\* `return address_events_balances`, or the RemoteError leaves the method
EvReturn(p) ==
    /\ pc[p] \in {"ev_return", "ev_raised"}
    /\ pc' = [pc EXCEPT ![p] = "idle"]
    /\ frame' = [frame EXCEPT ![p] = NoFrame]
    /\ UNCHANGED <<kind, ncalls, ranges, store, last, pg, trades_lock, staking>>

EventsInit ==
    /\ kind = "events"
    /\ ranges = [a \in Addresses |-> NoRange]
    /\ store = {}
    /\ last = NoCall
    /\ Idle

EventsNext ==
    \/ \E addresses \in EventsBatches, from_timestamp \in Timestamps, to_timestamp \in Timestamps :
          EvCall(EventsCaller, addresses, from_timestamp, to_timestamp)
    \/ EvClassify(EventsCaller)
    \/ EvFetchNew(EventsCaller)
    \/ EvFetchDelta(EventsCaller)
    \/ EvPersist(EventsCaller)
    \/ EvReadBack(EventsCaller)
    \/ EvBalances(EventsCaller)
    \/ EvCalculate(EventsCaller)
    \/ EvReturn(EventsCaller)

EventsSpec == EventsInit /\ [][EventsNext]_vars

\* a call of _get_events_balances that has ended, by return or by RemoteError
EvEnded(p) == pc[p] \in {"ev_return", "ev_raised"}

\* the addresses of the call of p whose history queries met no RemoteError
FetchedOk(p) == {w[1] : w \in frame[p].windows} \ frame[p].failed

\* C16: when a call of _get_events_balances over a batch ends, every address
\* whose queries met no RemoteError has the events of its queried window in the
\* table, and every such address with events in the read window is in the
\* returned result, whatever happened to the other addresses and to the
\* balance query.
C16_FailureIsolation ==
    \A p \in Callers :
        EvEnded(p) =>
            /\ \A w \in frame[p].windows :
                   w[1] \in FetchedOk(p) =>
                       \A r \in RemoteEvents :
                           (r.address = w[1] /\ w[2] <= r.timestamp /\ r.timestamp <= w[3])
                               => r \in store
            /\ \A a \in FetchedOk(p) \cap DOMAIN frame[p].db_address_events :
                   /\ pc[p] = "ev_return"
                   /\ a \in DOMAIN frame[p].address_events_balances

\* the profit/loss computation ran for an address in the call of p
Reconciled(p) == DOMAIN frame[p].calculated

\* C17 as stated: the profit/loss computation runs only in calls with
\* from_timestamp = 0; a call with from_timestamp > 0 returns without it.
C17_ReconcileGated ==
    \A p \in Callers :
        (pc[p] = "ev_return" /\ frame[p].from_timestamp > 0) => Reconciled(p) = {}

\* C17, amended: only the balance query is tied to from_timestamp = 0; the
\* profit/loss computation runs in every call that returns, once for every
\* address with events in the read window, whatever from_timestamp is.
C17_OnlySnapshotGated ==
    \A p \in Callers :
        /\ (pc[p] \in {"ev_calculate", "ev_return", "ev_raised"}
               /\ frame[p].snapshot # "none") => frame[p].from_timestamp = 0
        /\ pc[p] = "ev_return" =>
               /\ Reconciled(p) = DOMAIN frame[p].db_address_events
               /\ DOMAIN frame[p].address_events_balances = Reconciled(p)

\* a windowed call that returned the profit/loss of both addresses
C17_Witness ==
    \E p \in Callers :
        /\ pc[p] = "ev_return"
        /\ frame[p].from_timestamp > 0
        /\ Reconciled(p) = Addresses

\* C18: in a call of _get_events_balances that got past the balance step, the
\* balances were requested exactly when from_timestamp = 0; a call with
\* from_timestamp > 0 that returns has computed the profit/loss of every
\* address with events in the window, each from an empty list of balances, so
\* that the result is what the events alone give.
C18_SnapshotPolicy ==
    \A p \in Callers :
        /\ pc[p] \in {"ev_calculate", "ev_return", "ev_raised"} =>
               (frame[p].snapshot # "none" <=> frame[p].from_timestamp = 0)
        /\ (pc[p] = "ev_return" /\ frame[p].from_timestamp > 0) =>
               /\ DOMAIN frame[p].address_events_balances = DOMAIN frame[p].db_address_events
               /\ \A a \in DOMAIN frame[p].db_address_events :
                      /\ frame[p].calculated[a].balances = <<>>
                      /\ frame[p].calculated[a].events = frame[p].db_address_events[a]
                      /\ frame[p].address_events_balances[a] =
                             _calculate_events_balances(a, frame[p].db_address_events[a], <<>>)

\* a windowed call that returned a profit/loss, after a full call that used
\* balances for the same address
C18_Witness ==
    \E p \in Callers :
        /\ pc[p] = "ev_return"
        /\ frame[p].from_timestamp > 0
        /\ ncalls = MaxCalls
        /\ \E a \in DOMAIN frame[p].address_events_balances :
               /\ Len(frame[p].db_address_events[a]) >= 2
               /\ frame[p].address_events_balances[a].profit_loss = 0

-----------------------------------------------------------------------------
(* AdEx staking: events and profit/loss *)

\* events of a staking history at most
MaxEvents == 3

\* class EventType
EventType == {"BOND", "UNBOND", "UNBOND_REQUEST", "CHANNEL_WITHDRAW"}

\* EventType.__str__
EventTypeStr(event_type) ==
    CASE event_type = "BOND" -> "deposit"
      [] event_type = "UNBOND" -> "withdraw"
      [] event_type = "UNBOND_REQUEST" -> "withdraw request"
      [] event_type = "CHANNEL_WITHDRAW" -> "claim"

PoolIds == {"pool1", "pool2"}

\* Balance(amount, usd_value)
Balance(amount, usd_value) == [amount |-> amount, usd_value |-> usd_value]

BalanceAdd(x, y) == Balance(x.amount + y.amount, x.usd_value + y.usd_value)

BalanceSub(x, y) == Balance(x.amount - y.amount, x.usd_value - y.usd_value)

\* the values of the events: a hundred tokens, worth 100 or 110 USD at the
\* time of the event
EventValues == {Balance(100, 100), Balance(100, 110)}

\* Bond, Unbond, UnbondRequest and ChannelWithdraw, by their event type
StakingEvents ==
    [event_type : EventType, pool_id : PoolIds, value : EventValues]

\* the balance of every pool as the staking contract reports it now
StakingBalances == [PoolIds -> {Balance(0, 0), Balance(50, 60)}]

\* variant of ProfitLossStep: a withdraw request counts as a withdrawal
ProfitLossStep_requests(profit_loss, event) ==
    IF event.event_type = "BOND"
    THEN BalanceSub(profit_loss, event.value)
    ELSE BalanceAdd(profit_loss, event.value)

\* One event of the pool in the running profit/loss: a deposit is taken off,
\* a withdrawal or a claim is added, a withdraw request moves nothing.
ProfitLossStep(profit_loss, event) ==
    IF event.event_type = "BOND"
    THEN BalanceSub(profit_loss, event.value)
    ELSE IF event.event_type \in {"UNBOND", "CHANNEL_WITHDRAW"}
    THEN BalanceAdd(profit_loss, event.value)
    ELSE profit_loss

\* the profit/loss of a pool: its balance now and then the events of the pool,
\* one after the other
RECURSIVE ProfitLoss(_, _, _)
ProfitLoss(pool_id, events, profit_loss) ==
    IF events = <<>> THEN profit_loss
    ELSE ProfitLoss(pool_id, Tail(events),
                    IF Head(events).pool_id = pool_id
                    THEN ProfitLossStep(profit_loss, Head(events))
                    ELSE profit_loss)

\* ADXStakingDetail of every pool
StakingDetails(events, balances) ==
    [pool_id \in PoolIds |->
        [pool_id |-> pool_id,
         adx_balance |-> balances[pool_id],
         profit_loss |-> ProfitLoss(pool_id, events, balances[pool_id])]]

\* the subgraph reports one more event of the address
StakingEvent(event) ==
    /\ Len(staking.events) < MaxEvents
    /\ staking' = [staking EXCEPT !.events = Append(@, event), !.staking_details = <<>>]
    /\ UNCHANGED <<kind, ncalls, ranges, store, last, pg, pc, frame, trades_lock>>

\* the staking history is requested: the details are computed from the events
\* and the balances of the moment
StakingHistory ==
    /\ staking.staking_details = <<>>
    /\ staking' = [staking EXCEPT
           !.staking_details = StakingDetails(staking.events, staking.balances)]
    /\ UNCHANGED <<kind, ncalls, ranges, store, last, pg, pc, frame, trades_lock>>

StakingInit ==
    /\ kind = "events"
    /\ ranges = [a \in Addresses |-> NoRange]
    /\ store = {}
    /\ last = NoCall
    /\ pg = NoQuery
    /\ pc = [p \in Callers |-> "idle"]
    /\ frame = [p \in Callers |-> NoFrame]
    /\ trades_lock = 0
    /\ ncalls = 0
    /\ \E balances \in StakingBalances :
         staking = [events |-> <<>>, balances |-> balances, staking_details |-> <<>>]

StakingNext ==
    \/ \E event \in StakingEvents : StakingEvent(event)
    \/ StakingHistory

StakingSpec == StakingInit /\ [][StakingNext]_vars

\* the events of a pool with one of the given event types, in USD or in tokens
EventsSum(events, pool_id, event_types, usd) ==
    LET sel == SelectSeq(events, LAMBDA e : e.pool_id = pool_id /\ e.event_type \in event_types)
    IN  Sum([i \in DOMAIN sel |-> IF usd THEN sel[i].value.usd_value ELSE sel[i].value.amount])

\* C19: the profit_loss of a computed staking detail is, in token amount and
\* in USD value, the balance of the pool plus the sum of its withdraw and claim
\* events minus the sum of its deposit events, each at the value the event
\* carries; one BOND of 100 (USD 100) followed by one UNBOND of 100 (USD 110)
\* with a zero balance gives amount 0 and USD value 10.
C19_ProfitLossArithmetic ==
    staking.staking_details # <<>> =>
        \A pool_id \in PoolIds :
            LET detail == staking.staking_details[pool_id]
                withdraws == {t \in EventType : EventTypeStr(t) \in {"withdraw", "claim"}}
                deposits == {t \in EventType : EventTypeStr(t) = "deposit"}
            IN  /\ detail.profit_loss.amount =
                       staking.balances[pool_id].amount
                       + EventsSum(staking.events, pool_id, withdraws, FALSE)
                       - EventsSum(staking.events, pool_id, deposits, FALSE)
                /\ detail.profit_loss.usd_value =
                       staking.balances[pool_id].usd_value
                       + EventsSum(staking.events, pool_id, withdraws, TRUE)
                       - EventsSum(staking.events, pool_id, deposits, TRUE)
                /\ (/\ staking.events =
                           <<[event_type |-> "BOND", pool_id |-> pool_id, value |-> Balance(100, 100)],
                             [event_type |-> "UNBOND", pool_id |-> pool_id, value |-> Balance(100, 110)]>>
                    /\ staking.balances[pool_id] = Balance(0, 0))
                       => detail.profit_loss = Balance(0, 10)

\* the details computed for a deposit of 100 and a withdrawal of 100 (USD 110)
\* of a pool without balance
C19_Witness ==
    /\ staking.staking_details # <<>>
    /\ staking.balances["pool1"] = Balance(0, 0)
    /\ staking.events =
           <<[event_type |-> "BOND", pool_id |-> "pool1", value |-> Balance(100, 100)],
             [event_type |-> "UNBOND", pool_id |-> "pool1", value |-> Balance(100, 110)]>>
    /\ staking.staking_details["pool1"].profit_loss = Balance(0, 10)

-----------------------------------------------------------------------------
(* The swaps loop over transactions of several swaps *)

\* largest amount of a swap of the model
MaxAmount == 1

\* the four amounts of a swap, every combination of zero and positive
Amounts ==
    [{"amount0_in", "amount1_in", "amount0_out", "amount1_out"} -> 0..MaxAmount]

SellAmounts == [amount0_in |-> 1, amount1_in |-> 0, amount0_out |-> 0, amount1_out |-> 1]

\* the swaps that make up the transactions of several swaps: a BUY and a SELL
\* of one pool, a BUY of another pool, and a swap that is neither
SwapKinds ==
    {[pair |-> "p1", amounts |-> BuyAmounts], [pair |-> "p1", amounts |-> SellAmounts],
     [pair |-> "p2", amounts |-> BuyAmounts],
     [pair |-> "p1", amounts |->
         [amount0_in |-> 1, amount1_in |-> 1, amount0_out |-> 0, amount1_out |-> 0]]}

\* the swaps of the transactions of the model: one swap of any amounts, or up
\* to three swaps of the kinds above
TxKinds ==
    {<<[pair |-> "p1", amounts |-> amounts]>> : amounts \in Amounts}
    \cup UNION {[1..n -> SwapKinds] : n \in 2..3}

\* entry of the transaction tx (its timestamp) with the given swaps, log
\* indexes ascending
TxEntry(tx, swaps) ==
    Entry([j \in DOMAIN swaps |->
        Swap("a1", tx, j, "ok", swaps[j].pair, swaps[j].amounts)])

\* what the subgraph returns for the swaps query: the transaction of k1 alone
\* (order 0), or the transactions of k1 and k2 in either order
GroupRows(k1, k2, order) ==
    IF order = 0 THEN <<TxEntry(1, k1)>>
    ELSE IF order = 1 THEN <<TxEntry(1, k1), TxEntry(2, k2)>>
    ELSE <<TxEntry(2, k2), TxEntry(1, k1)>>

GroupInit ==
    /\ kind = "trades"
    /\ ranges = [a \in Addresses |-> NoRange]
    /\ store = {}
    /\ last = NoCall
    /\ Idle

\* one query per behaviour
GroupNext ==
    \/ /\ pg.status = "idle"
       /\ \E k1 \in TxKinds, k2 \in TxKinds, order \in 0..2 :
            StartQuery("swaps", GroupRows(k1, k2, order), 0)
    \/ Request

GroupSpec == GroupInit /\ [][GroupNext]_vars

\* the trades of a list that hold a swap of the transaction tx
TradesOfTx(trades, tx) ==
    SelectSeq(trades, LAMBDA trade : \E i \in DOMAIN trade.swaps : trade.swaps[i].timestamp = tx)

\* the trades of a list that hold the swap
TradesWith(trades, swap) ==
    SelectSeq(trades, LAMBDA trade : \E i \in DOMAIN trade.swaps : trade.swaps[i] = AMMSwap(swap))

\* the outcome of a swap in a list of trades: the direction of the trade that
\* holds it, "invalid" when no trade does, "many" when several do
Outcome(trades, swap) ==
    LET with == TradesWith(trades, swap)
    IN  IF Len(with) = 0 THEN "invalid"
        ELSE IF Len(with) = 1 THEN with[1].trade_type
        ELSE "many"

Reverse(entries) == [i \in DOMAIN entries |-> entries[Len(entries) + 1 - i]]

\* C22: when the swaps loop has run over its entries, the trades of every
\* transaction are those its own swaps give, whatever the other entries are;
\* running the loop again over the same entries gives the same trades, and
\* running it over the entries in the opposite order gives every transaction
\* the same trades.
C22_GroupingDeterminism ==
    (pg.query = "swaps" /\ pg.status = "done") =>
        /\ \A i \in DOMAIN pg.rows :
             LET tx == pg.rows[i].transaction.swaps[1].timestamp
             IN  /\ TradesOfTx(pg.acc, tx) = EntryTrades(pg.rows[i])
                 /\ TradesOfTx(RunPages(NewQuery("swaps", Reverse(pg.rows), 0)).acc, tx)
                        = TradesOfTx(pg.acc, tx)
        /\ RunPages(NewQuery("swaps", pg.rows, 0)).acc = pg.acc

\* a finished loop over two transactions, the later one first, each of
\* several swaps that make more than one trade
C22_Witness ==
    /\ pg.status = "done"
    /\ Len(pg.rows) = 2
    /\ pg.rows[1].transaction.swaps[1].timestamp = 2
    /\ Len(TradesOfTx(pg.acc, 1)) = 2
    /\ Len(TradesOfTx(pg.acc, 2)) = 3
    /\ \E i \in DOMAIN pg.acc : Len(pg.acc[i].swaps) = 2

-----------------------------------------------------------------------------
(* The order of the steps of a sync *)

\* The stage of a caller's position: 1 classify, 2 fetch for the new
\* addresses, 3 fetch for the existing addresses, 4 persist, 5 read-back,
\* 6 reconcile, 7 done; 0 outside a sync.  In get_trades_history the read-back
\* is the last statement before the return.
Stage(position) ==
    CASE position \in {"classify", "ev_classify"} -> 1
      [] position \in {"fetch_new", "range_new", "ev_fetch_new"} -> 2
      [] position \in {"fetch_delta", "range_delta", "ev_fetch_delta"} -> 3
      [] position \in {"persist", "ev_persist"} -> 4
      [] position \in {"return", "ev_readback"} -> 5
      [] position \in {"ev_balances", "ev_calculate"} -> 6
      [] position \in {"ev_return", "ev_raised"} -> 7
      [] OTHER -> 0

\* a local of the call of p, or default when the call has no such local
Local(p, name, default) ==
    IF frame[p] # NoFrame /\ name \in DOMAIN frame[p] THEN frame[p][name] ELSE default

\* what the history queries of the call of p have returned so far
FetchedBy(p) ==
    <<Local(p, "address_events", NoFetch), Local(p, "address_amm_trades", NoFetch),
      Local(p, "windows", {})>>

\* what the call of p has read back, requested and computed so far
ReadBy(p) == Local(p, "db_address_events", NoFetch)

ReconciledBy(p) ==
    <<Local(p, "snapshot", "none"), Local(p, "address_balances", NoFetch),
      Local(p, "calculated", NoFetch)>>

\* C24: a sync call goes through its stages in the order classify, fetch for
\* the new addresses, fetch for the existing addresses, persist, read-back,
\* reconcile, never back and never past one; the history queries return only
\* in the two fetch stages, rows are added to the table only in the persist
\* stage, the read-back happens only in the read-back stage, and the balance
\* query and the profit/loss computation only in the reconcile stage.
C24_StageOrdering ==
    [][\A p \in Callers :
          /\ (Stage(pc[p]) > 0 /\ Stage(pc'[p]) > 0) =>
                 /\ Stage(pc'[p]) >= Stage(pc[p])
                 /\ Stage(pc'[p]) <= Stage(pc[p]) + 1
          /\ (Stage(pc[p]) = 0 /\ Stage(pc'[p]) > 0) => Stage(pc'[p]) = 1
          /\ (frame[p] # NoFrame /\ frame'[p] # NoFrame) =>
                 /\ FetchedBy(p)' # FetchedBy(p) => Stage(pc[p]) \in {2, 3}
                 /\ ReadBy(p)' # ReadBy(p) => Stage(pc[p]) = 5
                 /\ ReconciledBy(p)' # ReconciledBy(p) => Stage(pc[p]) = 6
          /\ (pc'[p] # pc[p] /\ ~(store' \subseteq store)) => Stage(pc[p]) = 4
          /\ (\A q \in Callers : pc'[q] = pc[q]) => store' \subseteq store]_vars

\* a call that queried a new and an existing address, wrote rows of both and
\* returned the profit/loss of both
C24_Witness ==
    \E p \in Callers :
        /\ pc[p] = "ev_return"
        /\ \E w1 \in frame[p].windows, w2 \in frame[p].windows : w1[2] = 0 /\ w2[2] > 0
        /\ DOMAIN frame[p].calculated = Addresses
        /\ frame[p].snapshot = "returned"

\* C25: the list a call of _get_events_balances hands to
\* add_sushiswap_events holds no event twice, whatever the batch is.
C25_PersistDeduplicates ==
    \A p \in Callers :
        Stage(pc[p]) >= 5 =>
            \A i \in DOMAIN frame[p].all_events, j \in DOMAIN frame[p].all_events :
                i # j => frame[p].all_events[i] # frame[p].all_events[j]

\* C26: what a call of _get_events_balances returns for an address is the
\* events the store holds for it within [from_timestamp, to_timestamp] of the
\* call, whatever windows its queries covered, each once and ascending by
\* timestamp and then log index; a second read of the same store gives the
\* same; an address without an event in the window has no entry.
C26_ReadBackOrderAndWindow ==
    \A p \in Callers :
        pc[p] = "ev_return" =>
            LET returned == frame[p].address_events_balances
                from_timestamp == frame[p].from_timestamp
                to_timestamp == frame[p].to_timestamp
                InWindow(address, from_ts, to_ts) ==
                    {r \in store : /\ r.address = address
                                   /\ from_ts <= r.timestamp
                                   /\ r.timestamp <= to_ts}
            IN  /\ DOMAIN returned \subseteq SeqToSet(frame[p].addresses)
                /\ \A a \in SeqToSet(frame[p].addresses) :
                       IF InWindow(a, from_timestamp, to_timestamp) = {}
                       THEN a \notin DOMAIN returned
                       ELSE /\ a \in DOMAIN returned
                            /\ LET events == returned[a].events
                               IN  /\ SeqToSet(events) = InWindow(a, from_timestamp, to_timestamp)
                                   /\ \A i, j \in DOMAIN events :
                                          i < j =>
                                              \/ events[i].timestamp < events[j].timestamp
                                              \/ /\ events[i].timestamp = events[j].timestamp
                                                 /\ events[i].log_index < events[j].log_index
                                   /\ events = ReadBack(store, frame[p].addresses,
                                                        from_timestamp, to_timestamp)[a]

\* a returned call whose queries covered more than its window: the store has
\* an older event of an address that is left out, two events of one timestamp
\* are returned, and another address of the batch has no entry
C26_Witness ==
    \E p \in Callers :
        /\ pc[p] = "ev_return"
        /\ frame[p].from_timestamp > 0
        /\ \E w \in frame[p].windows : w[2] < frame[p].from_timestamp
        /\ \E a \in DOMAIN frame[p].address_events_balances :
               /\ \E r \in store : r.address = a /\ r.timestamp < frame[p].from_timestamp
               /\ \E i, j \in DOMAIN frame[p].address_events_balances[a].events :
                      /\ i < j
                      /\ frame[p].address_events_balances[a].events[i].timestamp =
                             frame[p].address_events_balances[a].events[j].timestamp
        /\ \E b \in SeqToSet(frame[p].addresses) :
               b \notin DOMAIN frame[p].address_events_balances

-----------------------------------------------------------------------------
(* _get_trades with and without only_cache *)

\* the caller of the calls of _get_trades
TradesCaller == 1

\* variant of _get_trades: the `if only_cache` return is missing
_get_trades_no_cache(db, addresses, from_timestamp, to_timestamp, only_cache, fails) ==
    LET c == Classify(db.ranges, addresses, to_timestamp)
        r == SyncDb("trades", db, addresses, to_timestamp, fails)
    IN  [ranges |-> r.ranges,
         store |-> r.store,
         range_reads |-> SeqToSet(addresses),
         windows |-> r.windows,
         range_updates |->
             (IF NewNeeded(c) THEN SeqToSet(c.new_addresses) ELSE {})
             \cup (IF DeltaNeeded(c, to_timestamp) THEN SeqToSet(c.existing_addresses) ELSE {}),
         written |-> TRUE,
         returned |-> ReadBack(r.store, addresses, from_timestamp, to_timestamp)]

\* _get_trades on the DB state db: the DB state it leaves, the addresses whose
\* range it read (get_used_query_range), the windows it queried, the addresses
\* whose range it wrote (update_used_query_range), whether it called
\* add_amm_swaps, and what it returns.  `if only_cache: return
\* self._fetch_trades_from_db(...)` comes before all of these.
_get_trades(db, addresses, from_timestamp, to_timestamp, only_cache, fails) ==
    IF only_cache
    THEN [ranges |-> db.ranges,
          store |-> db.store,
          range_reads |-> {},
          windows |-> {},
          range_updates |-> {},
          written |-> FALSE,
          returned |-> ReadBack(db.store, addresses, from_timestamp, to_timestamp)]
    ELSE LET c == Classify(db.ranges, addresses, to_timestamp)
             r == SyncDb("trades", db, addresses, to_timestamp, fails)
         IN  [ranges |-> r.ranges,
              store |-> r.store,
              range_reads |-> SeqToSet(addresses),
              windows |-> r.windows,
              range_updates |->
                  (IF NewNeeded(c) THEN SeqToSet(c.new_addresses) ELSE {})
                  \cup (IF DeltaNeeded(c, to_timestamp)
                        THEN SeqToSet(c.existing_addresses) ELSE {}),
              written |-> TRUE,
              returned |-> ReadBack(r.store, addresses, from_timestamp, to_timestamp)]

\* _get_trades is called
TradesCall(p, addresses, from_timestamp, to_timestamp, only_cache) ==
    /\ pc[p] = "idle"
    /\ ncalls < MaxCalls
    /\ ncalls' = ncalls + 1
    /\ pc' = [pc EXCEPT ![p] = "gt_call"]
    /\ frame' = [frame EXCEPT ![p] =
           [addresses |-> addresses, from_timestamp |-> from_timestamp,
            to_timestamp |-> to_timestamp, only_cache |-> only_cache]]
    /\ UNCHANGED <<kind, ranges, store, last, pg, trades_lock, staking>>

\* the body of _get_trades
TradesRun(p) ==
    /\ pc[p] = "gt_call"
    /\ \E fails \in FailsOf(frame[p].addresses) :
          \E r \in {_get_trades([ranges |-> ranges, store |-> store], frame[p].addresses,
                                frame[p].from_timestamp, frame[p].to_timestamp,
                                frame[p].only_cache, fails)} :
              /\ ranges' = r.ranges
              /\ store' = r.store
              /\ frame' = [frame EXCEPT ![p] =
                     [addresses |-> frame[p].addresses,
                      from_timestamp |-> frame[p].from_timestamp,
                      to_timestamp |-> frame[p].to_timestamp,
                      only_cache |-> frame[p].only_cache,
                      range_reads |-> r.range_reads,
                      windows |-> r.windows,
                      range_updates |-> r.range_updates,
                      written |-> r.written,
                      returned |-> r.returned]]
    /\ pc' = [pc EXCEPT ![p] = "gt_done"]
    /\ UNCHANGED <<kind, ncalls, last, pg, trades_lock, staking>>

\* the caller has the result
TradesDone(p) ==
    /\ pc[p] = "gt_done"
    /\ pc' = [pc EXCEPT ![p] = "idle"]
    /\ frame' = [frame EXCEPT ![p] = NoFrame]
    /\ UNCHANGED <<kind, ncalls, ranges, store, last, pg, trades_lock, staking>>

CacheNext ==
    \/ \E addresses \in Batches, from_timestamp \in Timestamps, to_timestamp \in Timestamps,
          only_cache \in BOOLEAN :
            TradesCall(TradesCaller, addresses, from_timestamp, to_timestamp, only_cache)
    \/ TradesRun(TradesCaller)
    \/ TradesDone(TradesCaller)

CacheSpec == StepInit /\ [][CacheNext]_vars

\* C27: a call of _get_trades with only_cache reads no range, queries no
\* window of the subgraph, writes no range and no swap; it returns what the
\* store held at the call for the addresses and the window of the call, and
\* the ranges and the store are as before.
C27_CacheOnlyNoEffects ==
    [][\A p \in Callers :
          (pc[p] = "gt_call" /\ pc'[p] = "gt_done" /\ frame[p].only_cache) =>
              /\ frame'[p].range_reads = {}
              /\ frame'[p].windows = {}
              /\ frame'[p].range_updates = {}
              /\ ~frame'[p].written
              /\ frame'[p].returned =
                     ReadBack(store, frame[p].addresses,
                              frame[p].from_timestamp, frame[p].to_timestamp)
              /\ ranges' = ranges
              /\ store' = store]_vars

\* a cache-only call has returned swaps of one address of its batch, while
\* another address of the batch has no range and the subgraph has swaps of the
\* window the store lacks
C27_Witness ==
    \E p \in Callers :
        /\ pc[p] = "gt_done"
        /\ frame[p].only_cache
        /\ DOMAIN frame[p].returned # {}
        /\ \E a \in SeqToSet(frame[p].addresses) : ranges[a] = NoRange
        /\ \E r \in RemoteSwaps :
               /\ r.address \in SeqToSet(frame[p].addresses)
               /\ frame[p].from_timestamp <= r.timestamp
               /\ r.timestamp <= frame[p].to_timestamp
               /\ AMMSwap(r) \notin store

-----------------------------------------------------------------------------
(* deactivate and the lock of get_trades_history *)

\* C28: deactivate deletes the trades data (a step that moves no caller and
\* changes the ranges or the store) only while no call of get_trades_history
\* holds trades_lock.
C28_DeactivateSerialized ==
    [][(pc' = pc /\ <<ranges, store>>' # <<ranges, store>>) => trades_lock = 0]_vars

-----------------------------------------------------------------------------
(* AdEx staking: the rows of the events *)

\* the thread that stores staking events
StakingCaller == 1

\* str of a natural number: its decimal digits
RECURSIVE Str(_)
Str(n) ==
    LET digits == <<"0", "1", "2", "3", "4", "5", "6", "7", "8", "9">>
    IN  IF n < 10 THEN digits[n + 1] ELSE Str(n \div 10) \o digits[(n % 10) + 1]

\* the objects of the dataclasses Bond, Unbond, UnbondRequest and
\* ChannelWithdraw; the pool_id of Unbond and UnbondRequest defaults to
\* HexStr('')
Bonds ==
    [class : {"Bond"}, tx_hash : {"0xtx"}, address : Addresses, identity_address : {"0xid"},
     timestamp : Timestamps, bond_id : {"0xbond"}, pool_id : PoolIds, value : EventValues,
     nonce : 0..1, slashed_at : Timestamps]

Unbonds ==
    [class : {"Unbond"}, tx_hash : {"0xtx"}, address : Addresses, identity_address : {"0xid"},
     timestamp : Timestamps, bond_id : {"0xbond"}, value : EventValues,
     pool_id : PoolIds \cup {""}]

UnbondRequests ==
    [class : {"UnbondRequest"}, tx_hash : {"0xtx"}, address : Addresses,
     identity_address : {"0xid"}, timestamp : Timestamps, bond_id : {"0xbond"},
     unlock_at : Timestamps, value : EventValues, pool_id : PoolIds \cup {""}]

ChannelWithdraws ==
    [class : {"ChannelWithdraw"}, tx_hash : {"0xtx"}, address : Addresses,
     identity_address : {"0xid"}, timestamp : Timestamps, value : EventValues,
     channel_id : {"0xchannel"}, pool_id : PoolIds]

\* A position of an AdexEventDBTuple is <<>> for None and <<v>> for the value
\* v.  The first eight positions of to_db_tuple of every class:
CoreTuple(self, event_type) ==
    << <<self.tx_hash>>,
       <<self.address>>,
       <<self.identity_address>>,
       <<self.timestamp>>,
       <<EventTypeStr(event_type)>>,
       <<self.pool_id>>,
       <<Str(self.value.amount)>>,
       <<Str(self.value.usd_value)>> >>

\* Bond.to_db_tuple
Bond_to_db_tuple(self) ==
    CoreTuple(self, "BOND")
    \o << <<self.bond_id>>, <<self.nonce>>, <<self.slashed_at>>, <<>>, <<>> >>

\* Unbond.to_db_tuple
Unbond_to_db_tuple(self) ==
    CoreTuple(self, "UNBOND") \o << <<self.bond_id>>, <<>>, <<>>, <<>>, <<>> >>

\* variant of UnbondRequest_to_db_tuple: unlock_at is put where slashed_at goes
UnbondRequest_to_db_tuple_slashed(self) ==
    CoreTuple(self, "UNBOND_REQUEST")
    \o << <<self.bond_id>>, <<>>, <<self.unlock_at>>, <<>>, <<>> >>

\* UnbondRequest.to_db_tuple
UnbondRequest_to_db_tuple(self) ==
    CoreTuple(self, "UNBOND_REQUEST")
    \o << <<self.bond_id>>, <<>>, <<>>, <<self.unlock_at>>, <<>> >>

\* ChannelWithdraw.to_db_tuple
ChannelWithdraw_to_db_tuple(self) ==
    CoreTuple(self, "CHANNEL_WITHDRAW") \o << <<>>, <<>>, <<>>, <<>>, <<self.channel_id>> >>

\* to_db_tuple of the class of the object
to_db_tuple(self) ==
    CASE self.class = "Bond" -> Bond_to_db_tuple(self)
      [] self.class = "Unbond" -> Unbond_to_db_tuple(self)
      [] self.class = "UnbondRequest" -> UnbondRequest_to_db_tuple(self)
      [] self.class = "ChannelWithdraw" -> ChannelWithdraw_to_db_tuple(self)

\* an event object is built
RowEvent(p, event) ==
    /\ pc[p] = "idle"
    /\ pc' = [pc EXCEPT ![p] = "row_event"]
    /\ frame' = [frame EXCEPT ![p] = [event |-> event, row |-> <<>>]]
    /\ UNCHANGED <<kind, ncalls, ranges, store, last, pg, trades_lock, staking>>

\* event.to_db_tuple()
RowTuple(p) ==
    /\ pc[p] = "row_event"
    /\ frame' = [frame EXCEPT ![p].row = to_db_tuple(frame[p].event)]
    /\ pc' = [pc EXCEPT ![p] = "row_done"]
    /\ UNCHANGED <<kind, ncalls, ranges, store, last, pg, trades_lock, staking>>

\* the row is handed over
RowDone(p) ==
    /\ pc[p] = "row_done"
    /\ pc' = [pc EXCEPT ![p] = "idle"]
    /\ frame' = [frame EXCEPT ![p] = NoFrame]
    /\ UNCHANGED <<kind, ncalls, ranges, store, last, pg, trades_lock, staking>>

RowNext ==
    \/ \E event \in Bonds \cup Unbonds \cup UnbondRequests \cup ChannelWithdraws :
          RowEvent(StakingCaller, event)
    \/ RowTuple(StakingCaller)
    \/ RowDone(StakingCaller)

RowSpec == EventsInit /\ [][RowNext]_vars

\* C29: the row to_db_tuple gives for an event of any of the four classes has
\* 13 positions; none of the first eight (tx hash, address, identity address,
\* timestamp, type, pool id, amount, USD value) is None; the type is
\* "deposit" for a Bond, "withdraw" for an Unbond, "withdraw request" for an
\* UnbondRequest and "claim" for a ChannelWithdraw; of the last five (bond id,
\* nonce, slashed-at, unlock-at, channel id) exactly those of the class are
\* not None: 9, 10, 11 for a Bond, 9 for an Unbond, 9 and 12 for an
\* UnbondRequest, 13 for a ChannelWithdraw.
C29_RowShape ==
    \A p \in Callers :
        pc[p] = "row_done" =>
            LET row == frame[p].row
                class == frame[p].event.class
            IN  /\ Len(row) = 13
                /\ \A i \in 1..8 : row[i] # <<>>
                /\ row[5] = CASE class = "Bond" -> <<"deposit">>
                               [] class = "Unbond" -> <<"withdraw">>
                               [] class = "UnbondRequest" -> <<"withdraw request">>
                               [] class = "ChannelWithdraw" -> <<"claim">>
                /\ {i \in 9..13 : row[i] # <<>>} =
                       CASE class = "Bond" -> {9, 10, 11}
                         [] class = "Unbond" -> {9}
                         [] class = "UnbondRequest" -> {9, 12}
                         [] class = "ChannelWithdraw" -> {13}

\* the row of an UnbondRequest that unlocks at timestamp 0, with the default
\* pool id
C29_Witness ==
    \E p \in Callers :
        /\ pc[p] = "row_done"
        /\ frame[p].event.class = "UnbondRequest"
        /\ frame[p].event.pool_id = ""
        /\ frame[p].event.unlock_at = 0
        /\ frame[p].row[12] = <<0>>
        /\ frame[p].row[7] = <<"100">>

====
